---- MODULE Spec2Model ----
(***************************************************************************)
(* A model of src/ml_utils.py, the preprocessing helpers of the House      *)
(* Price project.                                                          *)
(*                                                                         *)
(* A DataFrame is a sequence of columns; a column is a record              *)
(*   [name |-> STRING, dtype |-> "O" or "num", vals |-> sequence of cells] *)
(* A cell is  NaN (the empty tuple, the missing value of either dtype),    *)
(*            <<s>>    a text value, s a string, or                        *)
(*            <<n, d>> the number n/d, d > 0, in lowest terms.             *)
(* DataFrames live on a heap (a sequence of frames; a reference is an      *)
(* index), so that a function that copies and one that returns its         *)
(* argument are told apart.                                                *)
(***************************************************************************)
EXTENDS Integers, Sequences, FiniteSets, TLC

VARIABLES
    heap,   \* the DataFrame objects, by reference
    df,     \* the caller's reference to its DataFrame
    orig,   \* the value of the caller's DataFrame before any call (ghost)
    args,   \* the arguments of the last call
    ret,    \* what the last call returned: [tag, val]
    pc      \* the caller's position

vars == <<heap, df, orig, args, ret, pc>>

(***************************************************************************)
(* Cells and exact arithmetic on numeric cells                             *)
(***************************************************************************)
NaN == <<>>

Str(s) == <<s>>

Abs(n) == IF n < 0 THEN -n ELSE n

RECURSIVE GCD(_, _)
GCD(a, b) == IF b = 0 THEN a ELSE GCD(b, a % b)

\* n/d as a cell; a zero denominator is only produced by 0/0, which is NaN.
Rat(n, d) ==
    IF d = 0 THEN NaN
    ELSE LET g == GCD(Abs(n), Abs(d))
             s == IF d < 0 THEN -1 ELSE 1
         IN  <<(s * n) \div g, (s * d) \div g>>

Num(n) == <<n, 1>>

RAdd(a, b) == IF a = NaN \/ b = NaN THEN NaN ELSE Rat(a[1] * b[2] + b[1] * a[2], a[2] * b[2])

RSub(a, b) == IF a = NaN \/ b = NaN THEN NaN ELSE Rat(a[1] * b[2] - b[1] * a[2], a[2] * b[2])

RMul(a, b) == IF a = NaN \/ b = NaN THEN NaN ELSE Rat(a[1] * b[1], a[2] * b[2])

RDiv(a, b) == IF a = NaN \/ b = NaN THEN NaN ELSE Rat(a[1] * b[2], a[2] * b[1])

\* a < b on numeric cells; every comparison with NaN is false.
RLess(a, b) == a # NaN /\ b # NaN /\ a[1] * b[2] < b[1] * a[2]

(***************************************************************************)
(* The DataFrame operations the code uses                                  *)
(***************************************************************************)
Range(s) == {s[i] : i \in DOMAIN s}

\* how many times x is in the sequence s
Occurrences(s, x) == Cardinality({i \in DOMAIN s : s[i] = x})

\* dataframe.columns
Columns(frame) == [i \in DOMAIN frame |-> frame[i].name]

HasCol(frame, name) == \E i \in DOMAIN frame : frame[i].name = name

\* dataframe[name]
Col(frame, name) == frame[CHOOSE i \in DOMAIN frame : frame[i].name = name]

\* len(dataframe)
NRows(frame) == IF frame = <<>> THEN 0 ELSE Len(frame[1].vals)

\* Series.nunique(): the distinct values, missing ones not counted
nunique(s) == Cardinality(Range(s.vals) \ {NaN})

\* Series.unique(): the distinct values, NaN among them
unique(s) == Range(s.vals)

\* Series.isnull().any()
anynull(s) == NaN \in Range(s.vals)

\* Series.fillna(v)
fillna(s, v) == [s EXCEPT !.vals = [i \in DOMAIN s.vals |-> IF s.vals[i] = NaN THEN v ELSE s.vals[i]]]

\* the non-missing values of a Series, in row order
notnull(s) == SelectSeq(s.vals, LAMBDA v : v # NaN)

\* Series.count()
count(s) == Len(notnull(s))

RECURSIVE SumSeq(_)
SumSeq(s) == IF s = <<>> THEN Num(0) ELSE RAdd(s[1], SumSeq(Tail(s)))

\* Series.mean(): NaN skipped; NaN when nothing is left
mean(s) == IF count(s) = 0 THEN NaN ELSE RDiv(SumSeq(notnull(s)), Num(count(s)))

\* the category labels, in the order Python sorts them
Labels == <<"A", "B", "C", "Rare">>

\* the place of a text cell in that order
Rank(v) == CHOOSE i \in DOMAIN Labels : Labels[i] = v[1]

\* values sorted ascending (insertion sort)
RECURSIVE Insert(_, _)
Insert(v, s) ==
    IF s = <<>> THEN <<v>>
    ELSE IF RLess(s[1], v) THEN <<s[1]>> \o Insert(v, Tail(s))
    ELSE <<v>> \o s

RECURSIVE SortNum(_)
SortNum(s) == IF s = <<>> THEN <<>> ELSE Insert(s[1], SortNum(Tail(s)))

(***************************************************************************)
(* grab_col_names                                                          *)
(***************************************************************************)
\* a faulty variant: the cardinal columns are not taken out of cat_cols
grab_col_names_keeps_cardinal(dataframe, cat_th, car_th) ==
    LET cols == Columns(dataframe)
        categorical_columns == SelectSeq(cols, LAMBDA c : Col(dataframe, c).dtype = "O")
        numeric_but_categorical ==
            SelectSeq(cols, LAMBDA c : nunique(Col(dataframe, c)) < cat_th /\ Col(dataframe, c).dtype # "O")
        categorical_but_cardinal ==
            SelectSeq(cols, LAMBDA c : nunique(Col(dataframe, c)) > car_th /\ Col(dataframe, c).dtype = "O")
        cat_cols == categorical_columns \o numeric_but_categorical
        num_cols0 == SelectSeq(cols, LAMBDA c : Col(dataframe, c).dtype # "O")
        num_cols == SelectSeq(num_cols0, LAMBDA c : c \notin Range(numeric_but_categorical))
    IN  <<cat_cols, categorical_but_cardinal, num_cols>>

grab_col_names(dataframe, cat_th, car_th) ==
    LET cols == Columns(dataframe)
        categorical_columns == SelectSeq(cols, LAMBDA c : Col(dataframe, c).dtype = "O")
        numeric_but_categorical ==
            SelectSeq(cols, LAMBDA c : nunique(Col(dataframe, c)) < cat_th /\ Col(dataframe, c).dtype # "O")
        categorical_but_cardinal ==
            SelectSeq(cols, LAMBDA c : nunique(Col(dataframe, c)) > car_th /\ Col(dataframe, c).dtype = "O")
        cat_cols == SelectSeq(categorical_columns \o numeric_but_categorical,
                              LAMBDA c : c \notin Range(categorical_but_cardinal))
        num_cols0 == SelectSeq(cols, LAMBDA c : Col(dataframe, c).dtype # "O")
        num_cols == SelectSeq(num_cols0, LAMBDA c : c \notin Range(numeric_but_categorical))
    IN  <<cat_cols, categorical_but_cardinal, num_cols>>

(***************************************************************************)
(* outlier_thresholds, replace_with_thresholds                             *)
(***************************************************************************)
Raise(e) == [tag |-> "error", val |-> e]

Min(a, b) == IF a < b THEN a ELSE b

\* Series.quantile(q), pandas' linear interpolation between the two order
\* statistics around position (n - 1) * q of the non-missing values; NaN
\* when there is none. q is a numeric cell in [0, 1].
quantile(s, q) ==
    LET xs == SortNum(notnull(s))
        n == Len(xs)
        pos == (n - 1) * q[1]
        i == pos \div q[2]
        frac == Rat(pos % q[2], q[2])
    IN  IF n = 0 THEN NaN
        ELSE RAdd(xs[i + 1], RMul(frac, RSub(xs[Min(i + 2, n)], xs[i + 1])))

\* a faulty variant: no data is an error
outlier_thresholds_fails_on_empty(dataframe, variable, low_quantile, up_quantile) ==
    IF ~HasCol(dataframe, variable) THEN Raise("KeyError")
    ELSE IF count(Col(dataframe, variable)) = 0 THEN Raise("ValueError")
    ELSE LET q1 == quantile(Col(dataframe, variable), low_quantile)
             q3 == quantile(Col(dataframe, variable), up_quantile)
             iqr == RSub(q3, q1)
         IN  [tag |-> "limits",
              val |-> <<RSub(q1, RMul(Rat(3, 2), iqr)), RAdd(q3, RMul(Rat(3, 2), iqr))>>]

\* variable names a numeric column of the frame, or no column of it
outlier_thresholds(dataframe, variable, low_quantile, up_quantile) ==
    IF ~HasCol(dataframe, variable) THEN Raise("KeyError")
    ELSE LET q1 == quantile(Col(dataframe, variable), low_quantile)
             q3 == quantile(Col(dataframe, variable), up_quantile)
             iqr == RSub(q3, q1)
             low_limit == RSub(q1, RMul(Rat(3, 2), iqr))
             up_limit == RAdd(q3, RMul(Rat(3, 2), iqr))
         IN  [tag |-> "limits", val |-> <<low_limit, up_limit>>]

\* dataframe with column name replaced by s
SetCol(dataframe, name, s) ==
    [i \in DOMAIN dataframe |-> IF dataframe[i].name = name THEN s ELSE dataframe[i]]

\* dataframe.loc[dataframe[variable] < limit, variable] = value
ClampBelow(s, limit, value) ==
    [s EXCEPT !.vals = [i \in DOMAIN s.vals |-> IF RLess(s.vals[i], limit) THEN value ELSE s.vals[i]]]

\* dataframe.loc[dataframe[variable] > limit, variable] = value
ClampAbove(s, limit, value) ==
    [s EXCEPT !.vals = [i \in DOMAIN s.vals |-> IF RLess(limit, s.vals[i]) THEN value ELSE s.vals[i]]]

\* a faulty variant: the upper clamp writes the lower limit
replace_with_thresholds_writes_low(dataframe, variable, low_quantile, up_quantile) ==
    LET lim == outlier_thresholds(dataframe, variable, low_quantile, up_quantile)
    IN  IF lim.tag = "error" THEN lim
        ELSE LET s1 == ClampBelow(Col(dataframe, variable), lim.val[1], lim.val[1])
                 s2 == ClampAbove(s1, lim.val[2], lim.val[1])
             IN  [tag |-> "frame", val |-> SetCol(dataframe, variable, s2)]

\* the frame the call leaves behind (the call works in place), or the error
replace_with_thresholds(dataframe, variable, low_quantile, up_quantile) ==
    LET lim == outlier_thresholds(dataframe, variable, low_quantile, up_quantile)
    IN  IF lim.tag = "error" THEN lim
        ELSE LET s1 == ClampBelow(Col(dataframe, variable), lim.val[1], lim.val[1])
                 s2 == ClampAbove(s1, lim.val[2], lim.val[2])
             IN  [tag |-> "frame", val |-> SetCol(dataframe, variable, s2)]

(***************************************************************************)
(* quick_missing_imp                                                       *)
(***************************************************************************)
\* Series.mode() of a text Series: the most frequent non-missing values
mode(s) ==
    LET vs == Range(s.vals) \ {NaN}
    IN  {v \in vs : \A w \in vs : Occurrences(s.vals, w) <= Occurrences(s.vals, v)}

\* mode()[0]: mode() is sorted, so its first entry is the least label
FirstMode(s) == CHOOSE v \in mode(s) : \A w \in mode(s) : Rank(v) <= Rank(w)

\* Series.median(): NaN skipped; NaN when nothing is left
median(s) ==
    LET xs == SortNum(notnull(s))
        n == Len(xs)
    IN  IF n = 0 THEN NaN
        ELSE IF n % 2 = 1 THEN xs[(n + 1) \div 2]
        ELSE RDiv(RAdd(xs[n \div 2], xs[n \div 2 + 1]), Num(2))

\* line 101: is the column filled by its mode
FillsByMode(s, cat_length) == s.dtype = "O" /\ Cardinality(unique(s)) <= cat_length /\ anynull(s)

\* line 101 raises on a column to fill that has no mode (s.mode()[0] of nothing)
ModeRaises(data, cat_length) ==
    \E i \in DOMAIN data : FillsByMode(data[i], cat_length) /\ mode(data[i]) = {}

\* lines 100-102
FillCategorical(data, cat_length) ==
    [i \in DOMAIN data |->
        IF FillsByMode(data[i], cat_length) THEN fillna(data[i], FirstMode(data[i])) ELSE data[i]]

\* lines 105-108
FillNumeric(data, num_method) ==
    [i \in DOMAIN data |->
        IF data[i].dtype # "O" /\ anynull(data[i])
        THEN fillna(data[i], IF num_method = "mean" THEN mean(data[i]) ELSE median(data[i]))
        ELSE data[i]]

\* a faulty variant: the target column is not put back
quick_missing_imp_keeps_fill(data, num_method, cat_length, target) ==
    IF ModeRaises(data, cat_length) THEN Raise("KeyError")
    ELSE [tag |-> "frame", val |-> FillNumeric(FillCategorical(data, cat_length), num_method)]

\* a faulty variant: the cardinality test is strict
quick_missing_imp_strict(data, num_method, cat_length, target) ==
    LET temp_target == IF HasCol(data, target) THEN Col(data, target) ELSE NaN
        filled == FillNumeric(FillCategorical(data, cat_length - 1), num_method)
    IN  IF ModeRaises(data, cat_length - 1) THEN Raise("KeyError")
        ELSE [tag |-> "frame",
              val |-> IF HasCol(data, target) THEN SetCol(filled, target, temp_target) ELSE filled]

\* the new frame the call returns, or the error
quick_missing_imp(data, num_method, cat_length, target) ==
    LET temp_target == IF HasCol(data, target) THEN Col(data, target) ELSE NaN
        filled == FillNumeric(FillCategorical(data, cat_length), num_method)
    IN  IF ModeRaises(data, cat_length) THEN Raise("KeyError")
        ELSE [tag |-> "frame",
              val |-> IF HasCol(data, target) THEN SetCol(filled, target, temp_target) ELSE filled]

(***************************************************************************)
(* rare_encoder                                                            *)
(***************************************************************************)
\* Series.value_counts().index: the non-missing values
Categories(s) == Range(s.vals) \ {NaN}

\* freqs[freqs < rare_perc].index, freqs = value_counts() / len(temp_df)
RareLabels(s, n, rare_perc) ==
    {v \in Categories(s) : RLess(Rat(Occurrences(s.vals, v), n), rare_perc)}

\* np.where(temp_df[col].isin(rare_labels), "Rare", temp_df[col])
Relabel(s, rare_labels) ==
    [s EXCEPT !.vals = [i \in DOMAIN s.vals |-> IF s.vals[i] \in rare_labels THEN Str("Rare") ELSE s.vals[i]]]

\* a faulty variant: the test is <= rare_perc
rare_encoder_at_or_below(dataframe, rare_perc) ==
    LET n == NRows(dataframe)
        AtOrBelow(s) == {v \in Categories(s) : ~RLess(rare_perc, Rat(Occurrences(s.vals, v), n))}
    IN  [tag |-> "frame",
         val |-> [i \in DOMAIN dataframe |->
                    IF dataframe[i].dtype = "O" /\ AtOrBelow(dataframe[i]) # {}
                    THEN Relabel(dataframe[i], AtOrBelow(dataframe[i]))
                    ELSE dataframe[i]]]

\* a faulty variant: the frequency is taken relative to the most frequent category
rare_encoder_relative_to_top(dataframe, rare_perc) ==
    LET Top(s) == CHOOSE k \in 0..Len(s.vals) :
                      /\ \A v \in Categories(s) : Occurrences(s.vals, v) <= k
                      /\ (k = 0 \/ \E v \in Categories(s) : Occurrences(s.vals, v) = k)
    IN  [tag |-> "frame",
         val |-> [i \in DOMAIN dataframe |->
                    IF dataframe[i].dtype = "O"
                    THEN Relabel(dataframe[i], RareLabels(dataframe[i], Top(dataframe[i]), rare_perc))
                    ELSE dataframe[i]]]

\* the new frame the call returns
rare_encoder(dataframe, rare_perc) ==
    LET n == NRows(dataframe)
        rare_columns ==
            {i \in DOMAIN dataframe :
                dataframe[i].dtype = "O" /\ RareLabels(dataframe[i], n, rare_perc) # {}}
    IN  [tag |-> "frame",
         val |-> [i \in DOMAIN dataframe |->
                    IF i \in rare_columns
                    THEN Relabel(dataframe[i], RareLabels(dataframe[i], n, rare_perc))
                    ELSE dataframe[i]]]

(***************************************************************************)
(* one_hot_encoder                                                         *)
(***************************************************************************)
\* the categories of a text Series, sorted
Levels(s) == SelectSeq([i \in DOMAIN Labels |-> Str(Labels[i])], LAMBDA v : v \in Categories(s))

\* the indicator column of one level
Dummy(s, level) ==
    [name |-> s.name \o "_" \o level[1], dtype |-> "num",
     vals |-> [i \in DOMAIN s.vals |-> IF s.vals[i] = level THEN Num(1) ELSE Num(0)]]

\* the indicator columns of one Series: a missing entry is no level
\* (dummy_na is left False) and drop_first drops the first level
Dummies(s, drop_first) ==
    LET levels == IF drop_first /\ Levels(s) # <<>> THEN Tail(Levels(s)) ELSE Levels(s)
    IN  [k \in DOMAIN levels |-> Dummy(s, levels[k])]

RECURSIVE DummyBlocks(_, _, _)
DummyBlocks(dataframe, cols, drop_first) ==
    IF cols = <<>> THEN <<>>
    ELSE Dummies(Col(dataframe, cols[1]), drop_first) \o DummyBlocks(dataframe, Tail(cols), drop_first)

\* pd.get_dummies(dataframe, columns=cols, drop_first=drop_first), cols
\* naming text columns: the other columns, then each listed column's
\* indicators, in the order of the list
get_dummies(dataframe, cols, drop_first) ==
    IF \E k \in DOMAIN cols : ~HasCol(dataframe, cols[k]) THEN Raise("KeyError")
    ELSE [tag |-> "frame",
          val |-> SelectSeq(dataframe, LAMBDA c : c.name \notin Range(cols))
                  \o DummyBlocks(dataframe, cols, drop_first)]

\* a faulty variant: drop_first is not passed on
one_hot_encoder_keeps_first(dataframe, categorical_cols, drop_first) ==
    IF categorical_cols = <<>> THEN [tag |-> "same"]
    ELSE get_dummies(dataframe, categorical_cols, FALSE)

\* "same": the call returns its argument; else the new frame, or the error
one_hot_encoder(dataframe, categorical_cols, drop_first) ==
    IF categorical_cols = <<>> THEN [tag |-> "same"]
    ELSE get_dummies(dataframe, categorical_cols, drop_first)

(***************************************************************************)
(* target_mean_encode                                                      *)
(***************************************************************************)
\* the rows of one group, as a Series of the target
Group(frame, column, target, c) ==
    [name |-> target, dtype |-> "num",
     vals |-> LET idx == SelectSeq([i \in 1..NRows(frame) |-> i],
                                  LAMBDA i : Col(frame, column).vals[i] = c)
              IN  [k \in DOMAIN idx |-> Col(frame, target).vals[idx[k]]]]

\* line 177 on one group, n standing for stats["count"]
Smooth(n, group_mean, m, global_mean) ==
    RDiv(RAdd(RMul(Num(n), group_mean), RMul(m, global_mean)), RAdd(Num(n), m))

\* a faulty variant: "size" in place of "count"
target_mean_encode_by_size(frame, column, target, m) ==
    IF ~HasCol(frame, target) \/ ~HasCol(frame, column) THEN Raise("KeyError")
    ELSE [tag |-> "series",
          val |-> [c \in Categories(Col(frame, column)) |->
                     Smooth(Len(Group(frame, column, target, c).vals),
                            mean(Group(frame, column, target, c)), m, mean(Col(frame, target)))]]

\* target names a numeric column of the frame, or no column of it; the
\* Series returned is a function of the categories (groupby drops the rows
\* whose key is missing)
target_mean_encode(frame, column, target, m) ==
    IF ~HasCol(frame, target) \/ ~HasCol(frame, column) THEN Raise("KeyError")
    ELSE LET global_mean == mean(Col(frame, target))
         IN  [tag |-> "series",
              val |-> [c \in Categories(Col(frame, column)) |->
                         Smooth(count(Group(frame, column, target, c)),
                                mean(Group(frame, column, target, c)), m, global_mean)]]

(***************************************************************************)
(* Input DataFrames                                                        *)
(***************************************************************************)
\* the text cells over a set of labels, the numeric cells over a set of integers
TextCells(L) == {NaN} \cup {Str(l) : l \in L}

NumCells(S) == {NaN} \cup {Num(n) : n \in S}

TextColumn(name, n, L) == {[name |-> name, dtype |-> "O", vals |-> v] : v \in [1..n -> TextCells(L)]}

NumColumn(name, n, S) == {[name |-> name, dtype |-> "num", vals |-> v] : v \in [1..n -> NumCells(S)]}

\* every column called name, of n rows, of either dtype
AnyColumn(name, n, L, S) == TextColumn(name, n, L) \cup NumColumn(name, n, S)

NoCall == [op |-> "none"]
NoRet == [tag |-> "none"]

(***************************************************************************)
(* Calls of grab_col_names                                                 *)
(***************************************************************************)
GrabRows == 2

GrabLabels == {"A", "B"}

GrabNums == {1, 2}

\* thresholds from "nothing is below" to "everything is below" the distinct counts
GrabThresholds == 0..Cardinality(GrabLabels) + 1

InitGrab ==
    /\ \E a \in AnyColumn("MSZoning", GrabRows, GrabLabels, GrabNums),
          b \in AnyColumn("Street", GrabRows, GrabLabels, GrabNums),
          c \in AnyColumn("LotArea", GrabRows, GrabLabels, GrabNums) :
          /\ heap = << <<a, b, c>> >>
          /\ orig = <<a, b, c>>
    /\ df = 1
    /\ args = NoCall
    /\ ret = NoRet
    /\ pc = "start"

GrabColNames ==
    /\ pc = "start"
    /\ \E cat_th \in GrabThresholds, car_th \in GrabThresholds :
          /\ args' = [op |-> "grab_col_names", cat_th |-> cat_th, car_th |-> car_th]
          /\ ret' = [tag |-> "lists", val |-> grab_col_names(heap[df], cat_th, car_th)]
    /\ pc' = "done"
    /\ UNCHANGED <<heap, df, orig>>

NextGrab == GrabColNames

SpecGrab == InitGrab /\ [][NextGrab]_vars

\* C1: the three lists grab_col_names returns partition the columns of the
\* DataFrame: every column is in exactly one list, exactly once, and the
\* lists hold nothing else.
C1_Partition ==
    ret.tag = "lists" =>
        LET all == ret.val[1] \o ret.val[2] \o ret.val[3]
        IN  /\ \A c \in Range(Columns(orig)) : Occurrences(all, c) = 1
            /\ Range(all) \subseteq Range(Columns(orig))

\* a call that fills all three lists
C1_Witness ==
    /\ ret.tag = "lists"
    /\ ret.val[1] # <<>> /\ ret.val[2] # <<>> /\ ret.val[3] # <<>>

(***************************************************************************)
(* Calls of outlier_thresholds and replace_with_thresholds                 *)
(***************************************************************************)
OutRows == 4

\* the quantiles are the multiples of 1/QDen in [0, 1]
QDen == 4

OutNums == {0, 1, 9}

Quantiles == {Rat(k, QDen) : k \in 0..QDen}

InitOut ==
    /\ \E n \in 0..OutRows : \E c \in NumColumn("LotArea", n, OutNums) :
          /\ heap = << <<c>> >>
          /\ orig = <<c>>
    /\ df = 1
    /\ args = NoCall
    /\ ret = NoRet
    /\ pc = "start"

OutlierThresholds ==
    /\ pc = "start"
    /\ \E variable \in {"LotArea", "PoolArea"}, lq \in Quantiles, uq \in Quantiles :
          /\ args' = [op |-> "outlier_thresholds", variable |-> variable, lq |-> lq, uq |-> uq]
          /\ ret' = outlier_thresholds(heap[df], variable, lq, uq)
    /\ pc' = "done"
    /\ UNCHANGED <<heap, df, orig>>

\* the call works in place on the frame it is given
ReplaceIn(ref) ==
    \E variable \in {"LotArea", "PoolArea"}, lq \in Quantiles, uq \in Quantiles :
        LET r == replace_with_thresholds(heap[ref], variable, lq, uq)
        IN  /\ args' = [op |-> "replace_with_thresholds", dataframe |-> ref,
                        variable |-> variable, lq |-> lq, uq |-> uq]
            /\ heap' = IF r.tag = "error" THEN heap ELSE [heap EXCEPT ![ref] = r.val]
            /\ ret' = IF r.tag = "error" THEN r ELSE [tag |-> "None"]

ReplaceWithThresholds ==
    /\ pc = "start"
    /\ ReplaceIn(df)
    /\ pc' = "done"
    /\ UNCHANGED <<df, orig>>

NextOut == OutlierThresholds \/ ReplaceWithThresholds

SpecOut == InitOut /\ [][NextOut]_vars

\* what C5 says of a finished replace_with_thresholds call
Clamped ==
    LET lim == outlier_thresholds(orig, args.variable, args.lq, args.uq)
        low == lim.val[1]
        high == lim.val[2]
        pre == Col(orig, args.variable).vals
        post == Col(heap[df], args.variable).vals
    IN  /\ Len(post) = Len(pre)
        /\ \A i \in DOMAIN pre :
              /\ ~RLess(post[i], low) /\ ~RLess(high, post[i])
              /\ RLess(pre[i], low) => post[i] = low
              /\ RLess(high, pre[i]) => post[i] = high
              /\ (~RLess(pre[i], low) /\ ~RLess(high, pre[i])) => post[i] = pre[i]

Replaced == pc = "done" /\ args.op = "replace_with_thresholds" /\ ret.tag = "None"

\* C5 as stated, for every pair of quantiles: after replace_with_thresholds
\* no value of the column is below low or above high, the values that were
\* below low are low, those above high are high, the others are unchanged.
C5_AnyQuantiles == Replaced => Clamped

\* C5, amended: the same, provided low_quantile <= up_quantile.
C5_Clamped == (Replaced /\ ~RLess(args.uq, args.lq)) => Clamped

\* a call that clamps one value up to low and another down to high
C5_Witness ==
    /\ Replaced /\ ~RLess(args.uq, args.lq)
    /\ LET lim == outlier_thresholds(orig, args.variable, args.lq, args.uq)
           pre == Col(orig, args.variable).vals
       IN  /\ \E i \in DOMAIN pre : RLess(pre[i], lim.val[1])
           /\ \E i \in DOMAIN pre : RLess(lim.val[2], pre[i])

NoData == HasCol(orig, args.variable) /\ count(Col(orig, args.variable)) = 0

Called == pc = "done" /\ args.op = "outlier_thresholds"

\* C8 as stated: outlier_thresholds fails when the column is absent and
\* when the column has no rows or only missing entries.
C8_FailsWithoutData == (Called /\ (~HasCol(orig, args.variable) \/ NoData)) => ret.tag = "error"

\* C8, amended: outlier_thresholds fails when the column is absent; on a
\* column with no rows or only missing entries it returns (NaN, NaN).
C8_FailsOnAbsentOnly ==
    /\ (Called /\ ~HasCol(orig, args.variable)) => ret.tag = "error"
    /\ (Called /\ NoData) => ret = [tag |-> "limits", val |-> <<NaN, NaN>>]

\* a call on a column of two missing entries, and nothing else
C8_Witness == Called /\ NoData /\ Len(Col(orig, args.variable).vals) = 2 /\ ret.tag = "limits"

(***************************************************************************)
(* Calls of quick_missing_imp                                              *)
(***************************************************************************)
ImpRows == 3

MaxCatLength == 3

ImpLabels == {"A", "B"}

ImpNums == {1, 2}

\* a function that returns a new frame: the frame is put on the heap
Returned(r) ==
    /\ heap' = IF r.tag = "error" THEN heap ELSE Append(heap, r.val)
    /\ ret' = IF r.tag = "error" THEN r ELSE [tag |-> "frame", ref |-> Len(heap) + 1]

InitImp ==
    /\ \E a \in AnyColumn("SalePrice", ImpRows, ImpLabels, ImpNums),
          b \in AnyColumn("Alley", ImpRows, ImpLabels, ImpNums) :
          /\ heap = << <<a, b>> >>
          /\ orig = <<a, b>>
    /\ df = 1
    /\ args = NoCall
    /\ ret = NoRet
    /\ pc = "start"

QuickMissingImp ==
    /\ pc = "start"
    /\ \E num_method \in {"mean", "median"}, cat_length \in 0..MaxCatLength,
          target \in {"SalePrice", "Price"} :
          /\ args' = [op |-> "quick_missing_imp", num_method |-> num_method,
                      cat_length |-> cat_length, target |-> target]
          /\ Returned(quick_missing_imp(heap[df], num_method, cat_length, target))
    /\ pc' = "done"
    /\ UNCHANGED <<df, orig>>

NextImp == QuickMissingImp

SpecImp == InitImp /\ [][NextImp]_vars

Imputed == pc = "done" /\ args.op = "quick_missing_imp" /\ ret.tag = "frame"

\* C2: the target column of the frame quick_missing_imp returns is, row
\* for row, the target column of its input, missing entries included.
C2_TargetKept ==
    (Imputed /\ HasCol(orig, args.target)) =>
        Col(heap[ret.ref], args.target) = Col(orig, args.target)

\* a numeric target with a missing entry, beside a column that was filled
C2_Witness ==
    /\ Imputed /\ HasCol(orig, args.target)
    /\ Col(orig, args.target).dtype = "num" /\ anynull(Col(orig, args.target))
    /\ count(Col(orig, args.target)) > 0
    /\ anynull(Col(orig, "Alley")) /\ ~anynull(Col(heap[ret.ref], "Alley"))

\* the columns other than the target that are left with a missing value
LeftMissing == {c \in Range(Columns(orig)) \ {args.target} : anynull(Col(heap[ret.ref], c))}

\* C3 as stated: the returned frame has no missing value in any column,
\* other than the target, that is numeric or is text with at most
\* cat_length distinct values, missing ones not counted.
C3_NoMissingLeft ==
    Imputed =>
        \A c \in LeftMissing :
            ~(Col(orig, c).dtype # "O" \/ nunique(Col(orig, c)) <= args.cat_length)

\* C3, amended: the returned frame has no missing value in any column,
\* other than the target, that is numeric with a non-missing value, or is
\* text with at most cat_length distinct values, a missing one counted.
C3_NoMissingLeftWhereFillable ==
    Imputed =>
        \A c \in LeftMissing :
            ~( \/ Col(orig, c).dtype # "O" /\ count(Col(orig, c)) > 0
               \/ Col(orig, c).dtype = "O" /\ Cardinality(unique(Col(orig, c))) <= args.cat_length )

\* a text column of two labels and a missing entry, filled under cat_length 3
C3_Witness ==
    /\ Imputed /\ args.target = "SalePrice" /\ args.cat_length = Cardinality(unique(Col(orig, "Alley")))
    /\ Col(orig, "Alley").dtype = "O" /\ nunique(Col(orig, "Alley")) = 2 /\ anynull(Col(orig, "Alley"))
    /\ ~anynull(Col(heap[ret.ref], "Alley"))

(***************************************************************************)
(* Calls of rare_encoder, once and then again on what it returned          *)
(***************************************************************************)
RareRows == 3

\* the rows of the one-column frames
RareRowsOneColumn == 5

\* rare_perc is a multiple of 1/PercDen, up to just above 1
PercDen == 4

RareLabelSet == {"A", "B", "Rare"}

RareNums == {1}

Percs == {Rat(k, PercDen) : k \in 0..PercDen + 1}

InitRare ==
    /\ \/ \E a \in AnyColumn("Neighborhood", RareRows, RareLabelSet, RareNums),
             b \in AnyColumn("Street", RareRows, RareLabelSet, RareNums) :
             /\ heap = << <<a, b>> >>
             /\ orig = <<a, b>>
       \/ \E a \in TextColumn("Neighborhood", RareRowsOneColumn, Range(Labels)) :
             /\ heap = << <<a>> >>
             /\ orig = <<a>>
    /\ df = 1
    /\ args = NoCall
    /\ ret = NoRet
    /\ pc = "start"

RareEncoder ==
    /\ pc = "start"
    /\ \E rare_perc \in Percs :
          /\ args' = [op |-> "rare_encoder", dataframe |-> df, rare_perc |-> rare_perc]
          /\ Returned(rare_encoder(heap[df], rare_perc))
    /\ pc' = "done"
    /\ UNCHANGED <<df, orig>>

RareEncoderAgain ==
    /\ pc = "done" /\ args.op = "rare_encoder" /\ ret.tag = "frame"
    /\ args' = [args EXCEPT !.dataframe = ret.ref]
    /\ Returned(rare_encoder(heap[ret.ref], args.rare_perc))
    /\ pc' = "twice"
    /\ UNCHANGED <<df, orig>>

NextRare == RareEncoder \/ RareEncoderAgain

SpecRare == InitRare /\ [][NextRare]_vars

\* C6: rare_encoder applied to what rare_encoder returned, with the same
\* rare_perc, returns a frame equal to it, value for value.
C6_Idempotent == pc = "twice" => heap[ret.ref] = heap[args.dataframe]

\* a second call on a frame whose "Rare" category, merged by the first call
\* from two categories and a "Rare" already there, is itself below rare_perc
C6_Witness ==
    /\ pc = "twice"
    /\ LET first == Col(orig, "Neighborhood")
           second == Col(heap[args.dataframe], "Neighborhood")
       IN  /\ Cardinality(RareLabels(first, NRows(orig), args.rare_perc)) >= 2
           /\ Str("Rare") \in Categories(first)
           /\ Categories(second) \ {Str("Rare")} # {}
           /\ Str("Rare") \in RareLabels(second, NRows(orig), args.rare_perc)

\* is the value of row i of Series s in a category whose share of the n rows
\* is below rare_perc
IsRare(s, i, n, rare_perc) ==
    /\ s.vals[i] # NaN
    /\ Cardinality({j \in DOMAIN s.vals : s.vals[j] = s.vals[i]}) * rare_perc[2] < rare_perc[1] * n

\* C9: in the frame rare_encoder returns, a row of a text column holds
\* "Rare" when its input value is of a category whose row count over the
\* row count of the frame is below rare_perc, and the input value otherwise;
\* numeric columns, the columns, the row count and the row order are kept.
C9_RareExactly ==
    (pc \in {"done", "twice"} /\ args.op = "rare_encoder" /\ ret.tag = "frame") =>
        LET in == heap[args.dataframe]
            out == heap[ret.ref]
        IN  /\ Columns(out) = Columns(in)
            /\ \A c \in DOMAIN in :
                  /\ out[c].dtype = in[c].dtype
                  /\ DOMAIN out[c].vals = DOMAIN in[c].vals
                  /\ \A i \in DOMAIN in[c].vals :
                        out[c].vals[i] =
                            IF in[c].dtype = "O" /\ IsRare(in[c], i, NRows(in), args.rare_perc)
                            THEN Str("Rare")
                            ELSE in[c].vals[i]

\* a text column with one category relabelled and one kept, beside a
\* numeric column
C9_Witness ==
    /\ pc = "done" /\ args.op = "rare_encoder" /\ ret.tag = "frame"
    /\ HasCol(orig, "Street") /\ Col(orig, "Street").dtype = "num"
    /\ Col(orig, "Neighborhood").dtype = "O"
    /\ Str("B") \in Categories(Col(orig, "Neighborhood"))
    /\ Str("B") \notin Categories(Col(heap[ret.ref], "Neighborhood"))
    /\ Str("A") \in Categories(Col(heap[ret.ref], "Neighborhood"))

(***************************************************************************)
(* Calls of one_hot_encoder                                                *)
(***************************************************************************)
OheRows == 3

OheLabels == {"A", "B", "C"}

OheLists == {<<>>, <<"MSZoning">>, <<"Street">>, <<"MSZoning", "Street">>, <<"Street", "MSZoning">>}

InitOhe ==
    /\ \E a \in TextColumn("MSZoning", OheRows, OheLabels),
          b \in TextColumn("Street", OheRows, {"A", "B"}) :
          /\ heap = << <<a, b>> >>
          /\ orig = <<a, b>>
    /\ df = 1
    /\ args = NoCall
    /\ ret = NoRet
    /\ pc = "start"

OneHotEncoder ==
    /\ pc = "start"
    /\ \E categorical_cols \in OheLists, drop_first \in BOOLEAN :
          LET r == one_hot_encoder(heap[df], categorical_cols, drop_first)
          IN  /\ args' = [op |-> "one_hot_encoder", dataframe |-> df,
                          categorical_cols |-> categorical_cols, drop_first |-> drop_first]
              /\ IF r.tag = "same"
                 THEN heap' = heap /\ ret' = [tag |-> "frame", ref |-> df]
                 ELSE Returned(r)
    /\ pc' = "done"
    /\ UNCHANGED <<df, orig>>

NextOhe == OneHotEncoder

SpecOhe == InitOhe /\ [][NextOhe]_vars

Encoded ==
    /\ pc = "done" /\ args.op = "one_hot_encoder" /\ ret.tag = "frame"
    /\ args.categorical_cols # <<>>

\* the names get_dummies gives the indicators of column c
IndicatorNames(c, levels) == {c \o "_" \o l[1] : l \in levels}

\* the indicator columns of c in the returned frame
Indicators(c) ==
    {i \in DOMAIN heap[ret.ref] :
        heap[ret.ref][i].name \in IndicatorNames(c, {Str(l) : l \in Range(Labels)})}

\* the indicators of c are 0 or 1 and `ones` of them are 1 in row r
RowSum(c, r, ones) ==
    /\ \A i \in Indicators(c) : heap[ret.ref][i].vals[r] \in {Num(0), Num(1)}
    /\ Cardinality({i \in Indicators(c) : heap[ret.ref][i].vals[r] = Num(1)}) = ones

\* C7 as stated: with drop_first=False a listed column gets one indicator
\* per distinct value and the indicators sum to 1 in every row; with
\* drop_first=True a column of k distinct values gets k-1 indicators.
C7_SumIsOne ==
    Encoded =>
        \A c \in Range(args.categorical_cols) :
            LET s == Col(orig, c)
            IN  IF args.drop_first
                THEN Cardinality(Indicators(c)) = nunique(s) - 1
                ELSE /\ Cardinality(Indicators(c)) = nunique(s)
                     /\ {heap[ret.ref][i].name : i \in Indicators(c)} = IndicatorNames(c, Categories(s))
                     /\ \A r \in DOMAIN s.vals : RowSum(c, r, 1)

\* C7, amended: with drop_first=False a listed column gets one indicator
\* per distinct non-missing value, and the indicators sum to 1 in every row
\* where the column holds a value and to 0 where it is missing; with
\* drop_first=True a column of k >= 1 distinct values gets k-1 indicators
\* and a column with no value gets none.
C7_SumIsOneWhereValue ==
    Encoded =>
        \A c \in Range(args.categorical_cols) :
            LET s == Col(orig, c)
            IN  IF args.drop_first
                THEN Cardinality(Indicators(c)) = IF nunique(s) = 0 THEN 0 ELSE nunique(s) - 1
                ELSE /\ Cardinality(Indicators(c)) = nunique(s)
                     /\ {heap[ret.ref][i].name : i \in Indicators(c)} = IndicatorNames(c, Categories(s))
                     /\ \A r \in DOMAIN s.vals : RowSum(c, r, IF s.vals[r] = NaN THEN 0 ELSE 1)

\* all three labels in the listed column, every indicator kept
C7_Witness ==
    /\ Encoded /\ ~args.drop_first /\ "MSZoning" \in Range(args.categorical_cols)
    /\ nunique(Col(orig, "MSZoning")) = 3
    /\ Cardinality(Indicators("MSZoning")) = 3

(***************************************************************************)
(* Calls of target_mean_encode                                             *)
(***************************************************************************)
TmeRows == 3

\* the smoothing weight m is a whole number up to MaxM
MaxM == 2

TmeLabels == {"A", "B"}

TmeNums == {1, 2}

InitTme ==
    /\ \E a \in AnyColumn("Neighborhood", TmeRows, TmeLabels, TmeNums),
          b \in NumColumn("SalePrice", TmeRows, TmeNums) :
          /\ heap = << <<a, b>> >>
          /\ orig = <<a, b>>
    /\ df = 1
    /\ args = NoCall
    /\ ret = NoRet
    /\ pc = "start"

TargetMeanEncode ==
    /\ pc = "start"
    /\ \E column \in {"Neighborhood", "Street"}, target \in {"SalePrice", "Price"}, m \in 0..MaxM :
          /\ args' = [op |-> "target_mean_encode", column |-> column, target |-> target, m |-> Num(m)]
          /\ ret' = target_mean_encode(heap[df], column, target, Num(m))
    /\ pc' = "done"
    /\ UNCHANGED <<heap, df, orig>>

NextTme == TargetMeanEncode

SpecTme == InitTme /\ [][NextTme]_vars

RECURSIVE SumOver(_, _)
SumOver(rows, vals) ==
    IF rows = {} THEN Num(0)
    ELSE LET i == CHOOSE i \in rows : TRUE IN RAdd(vals[i], SumOver(rows \ {i}, vals))

\* the mean of the target over the rows that hold one
MeanOver(rows) ==
    LET held == {i \in rows : Col(orig, args.target).vals[i] # NaN}
    IN  RDiv(SumOver(held, Col(orig, args.target).vals), Num(Cardinality(held)))

\* (n * mean + m * global_mean) / (n + m) for the rows of one category
Score(n, rows) ==
    RDiv(RAdd(RMul(Num(n), MeanOver(rows)), RMul(args.m, MeanOver(1..NRows(orig)))),
         RAdd(Num(n), args.m))

RowsOf(c) == {i \in 1..NRows(orig) : Col(orig, args.column).vals[i] = c}

Scored == pc = "done" /\ args.op = "target_mean_encode" /\ ret.tag = "series"

\* C10 as stated: the score of category c is (n*mean + m*global_mean)/(n+m)
\* with n the number of rows whose grouping value is c.
C10_ScoreByRows ==
    Scored => \A c \in DOMAIN ret.val : ret.val[c] = Score(Cardinality(RowsOf(c)), RowsOf(c))

\* C10, amended: the same with n the number of rows of category c whose
\* target entry is not missing (the score is missing when there is none).
C10_ScoreByHeld ==
    Scored =>
        /\ DOMAIN ret.val = Categories(Col(orig, args.column))
        /\ \A c \in DOMAIN ret.val :
              LET n == Cardinality({i \in RowsOf(c) : Col(orig, args.target).vals[i] # NaN})
              IN  ret.val[c] = IF n = 0 THEN NaN ELSE Score(n, RowsOf(c))

\* a category with a missing target entry and a score all the same
C10_Witness ==
    /\ Scored /\ args.m # Num(0)
    /\ \E c \in DOMAIN ret.val :
          /\ ret.val[c] # NaN
          /\ \E i \in RowsOf(c) : Col(orig, args.target).vals[i] = NaN

(***************************************************************************)
(* A caller that changes, in place, the frame a call returned              *)
(***************************************************************************)
AliasRows == 2

InitAlias ==
    /\ \E a \in TextColumn("MSZoning", AliasRows, {"A", "B"}),
          b \in NumColumn("LotArea", AliasRows, {0, 9}) :
          /\ heap = << <<a, b>> >>
          /\ orig = <<a, b>>
    /\ df = 1
    /\ args = NoCall
    /\ ret = NoRet
    /\ pc = "start"

\* replace_with_thresholds on the frame the last call returned
ReplaceReturned ==
    /\ pc = "done" /\ ret.tag = "frame"
    /\ ReplaceIn(ret.ref)
    /\ pc' = "changed"
    /\ UNCHANGED <<df, orig>>

NextAlias == QuickMissingImp \/ RareEncoder \/ OneHotEncoder \/ ReplaceReturned

SpecAlias == InitAlias /\ [][NextAlias]_vars

\* C4: quick_missing_imp, rare_encoder and one_hot_encoder leave the
\* caller's frame as it was, and no change made in place to the frame they
\* return shows in the caller's frame.
C4_CallerFrameKept == heap[df] = orig

====
